---------------------------- MODULE Spec2Model ----------------------------
(***************************************************************************)
(* iCELink-SWIO: the Ardulink command dispatcher (ArdulinkProtocol) and the *)
(* single-wire side it drives (SWIO, SWIOBitWriter, SWIOBitReader), all     *)
(* synchronous state machines clocked in one domain.  One step of the model *)
(* is one clock cycle, taken by the handler of the FSM state a machine is   *)
(* in.  Registers (m.d.sync) hold the value after the clock edge; the       *)
(* combinatorial outputs (m.d.comb) hold the value they took during the     *)
(* cycle that has just run; the inputs a handler samples are drawn afresh   *)
(* on every cycle.  Spec is the dispatcher alone, SpecSWIO the single-wire  *)
(* side alone, SpecLink the two connected as ICELinkInterface connects      *)
(* them.                                                                    *)
(***************************************************************************)
EXTENDS Integers, Sequences, FiniteSets

VARIABLES
    \* ---- what the blocks modelled are wired to
    wiring,       \* "host", "bench", "pulses" or "interface"
    \* ---- ArdulinkProtocol: registers
    fsm,          \* state of the FSM 'protocol'
    targetPower,  \* Signal()
    reg,          \* Signal(7)
    dataWrite,    \* Signal(32)
    operation,    \* Signal(RegisterOperation)
    valueByte,    \* Signal(range(5)): three bits wide
    \* ---- ArdulinkProtocol: combinatorial outputs during the last cycle
    sendStart, sendData, recvDone, startRead, startWrite,
    \* ---- the downstream transactor's result register, read by the dispatcher
    dataRead,
    \* ---- the host's and the transactor's view of the run (history)
    cmd,          \* command byte being executed; NoByte from accept to DISPATCH
    sent,         \* bytes put on the send channel since the last accept
    rx,           \* bytes latched after the command byte (register, data)
    starts,       \* startRead/startWrite pulses since the last accept
    inflight,     \* a start was pulsed and its done not yet seen
    greetings,    \* greeting bytes sent by INIT
    firstSent,    \* first byte ever put on the send channel
    everReady,    \* sendReady and ready were both true on some cycle so far
    testRun,      \* consecutive '?' commands dispatched
    testAcks,     \* ack bytes sent since that run of '?' began
    powerLog,     \* the most recent 'p'/'P' commands dispatched, oldest first
    \* ---- the platform the single-wire side is built for
    baseFrequency,    \* platform.default_clk_frequency // 1e6
    \* ---- SWIO (transactor): registers, and done during the last cycle
    swioFsm,          \* state of the FSM 'swio'
    swioOperation,    \* Signal(Operation)
    data,             \* Signal(32), as a tuple of bits, bit 0 first
    bitCounter,       \* Signal(range(33)): six bits wide
    swioDone,         \* SWIO.done
    \* ---- SWIOBitWriter (emitter): registers, and finish during the last cycle
    bitFsm,           \* state of the emitter's FSM 'bit'
    bit,              \* bitWriter.bit, written by the transactor
    swioReady,        \* bitWriter.ready, which is SWIO.ready
    bitTimer,         \* Signal(range(baseFrequency + bitFrequency))
    bitPeriod,        \* Signal(range(64))
    delayTimer,       \* Signal(range(delayDuration), reset = delayDuration - 1)
    delay,            \* Signal(range(20)): five bits wide
    o, oe,            \* swio.o, swio.oe
    finish,
    \* ---- SWIOBitReader (decoder): registers, and finish during the last cycle
    readFsm,          \* state of the decoder's FSM 'bit'
    readBit,          \* bitReader.bit
    error,
    readTimer,        \* the decoder's bitTimer
    readPeriod,       \* the decoder's bitPeriod, Signal(range(128))
    markTimer,        \* the decoder's delayTimer
    markPeriod,       \* the decoder's delayPeriod, Signal(range(5)): three bits
    readFinish,
    \* ---- what an observer of the decoder has seen
    lineIn,           \* swio.i during the last cycle
    lowTicks,         \* divider ticks with the line low in the bit-read under way
    readMarks,        \* divider ticks of the mark since the capture ended
    lowCycles,        \* cycles with the line low in the bit-read under way
    readTimer0,       \* the decoder's tick accumulator when the bit-read started
    \* ---- the target on the line
    targetKind,       \* "answers", "stuck" (holds the line low) or "silent"
    targetLow,        \* cycles the target still holds the line low
    targetReg,        \* address of the last write, as it went over the wire
    targetValue,      \* data of the last write, as it went over the wire
    targetIndex,      \* bits of the current read the target has answered
    \* ---- what an observer of the line and of the transactor has seen
    wire,             \* bits and markers emitted in the current transaction
    spaceCycles,      \* cycles the current bit has had output-enable asserted
    spaceTicks,       \* divider ticks counted in those cycles
    markCycles,       \* cycles the current bit or marker has had it released
    markTicks,        \* divider ticks counted in those cycles
    phases,           \* handshake phases completed: <<o, oe, delay periods>>
    periods,          \* delay periods of the handshake phase under way
    decoded,          \* bits the decoder delivered in the current transaction
    finishes,         \* cycles of bitWriter.finish in the current transaction
    timer0,           \* bitTimer when the current bit's space was loaded
    transactions,     \* start pulses accepted so far
    pending           \* accepted start pulses whose done is still to come

regs == <<fsm, targetPower, reg, dataWrite, operation, valueByte>>
outs == <<sendStart, sendData, recvDone, startRead, startWrite>>
hist == <<cmd, sent, rx, starts, inflight, greetings, firstSent, everReady,
          testRun, testAcks, powerLog>>
transactor == <<swioFsm, swioOperation, data, bitCounter, swioDone>>
emitter    == <<bitFsm, bit, swioReady, bitTimer, bitPeriod, delayTimer, delay, o, oe,
               finish>>
decoder    == <<readFsm, readBit, error, readTimer, readPeriod, markTimer,
               markPeriod, readFinish>>
heard      == <<lineIn, lowTicks, readMarks, lowCycles, readTimer0>>
target     == <<targetKind, targetLow, targetReg, targetValue, targetIndex>>
trace      == <<wire, spaceCycles, spaceTicks, markCycles, markTicks, phases,
               periods, decoded, finishes, timer0, transactions, pending>>
bus        == <<baseFrequency, transactor, emitter, decoder, heard, target, trace>>
vars == <<wiring, regs, outs, dataRead, hist, bus>>

\* ---- protocol bytes
Greeting    == 33
Ack         == 43
CmdTest     == 63
CmdPowerOn  == 112
CmdPowerOff == 80
CmdWrite    == 119
CmdRead     == 114

\* ---- RegisterOperation (IntEnum, auto() starts at 1; a Signal resets to 0)
OpNone  == 0
OpRead  == 1
OpWrite == 2

\* ---- widths
ValueByteMod == 8
RegMod       == 128
ByteMod      == 256
WordBytes    == 4

\* ---- bounds of the history kept
MaxSent   == 5
MaxRx     == 5
MaxPulses == 2
MaxRun    == 3
MaxPower  == 2

NoByte  == ByteMod   \* no byte: outside 0..255
TooMany == <<NoByte>>

\* ---- the values the environment presents
HostBytes     == {CmdTest, CmdPowerOn, CmdPowerOff, CmdWrite, CmdRead, 0, 250}
RegisterBytes == {53, 250}
DataBytes     == IF wiring = "interface" THEN {85} ELSE {21, 85}
Words         == {2129504853, 67305985}   \* 0x7eedaa55, 0x04030201

\* Connected to the single-wire side, the host asks for MaxTransactions
\* register operations and then only tests the link.
MaxTransactions == 2

CommandBytes ==
    IF wiring # "interface" THEN HostBytes
    ELSE IF transactions < MaxTransactions THEN {CmdWrite, CmdRead}
    ELSE {CmdTest}

Recognised == {CmdTest, CmdPowerOn, CmdPowerOff, CmdWrite, CmdRead}

States == {"INIT", "WAIT_COMMAND", "DISPATCH", "RECV_REG_NUMBER", "RECV_REGISTER",
           "WAIT_READ", "SEND_READ_VALUE", "RECV_WRITE_VALUE", "GRAB_WRITE_VALUE",
           "WAIT_WRITE", "SEND_ACK"}

RECURSIVE Pow(_, _)
Pow(b, n) == IF n = 0 THEN 1 ELSE b * Pow(b, n - 1)

Min(a, b) == IF a < b THEN a ELSE b

\* value.bit_select(8 * k, 8) read: bits beyond the value read as 0
ByteSelect_BigEndian(value, k) ==
    IF k < WordBytes THEN (value \div Pow(ByteMod, WordBytes - 1 - k)) % ByteMod ELSE 0

ByteSelect(value, k) ==
    IF k < WordBytes THEN (value \div Pow(ByteMod, k)) % ByteMod ELSE 0

\* value.bit_select(8 * k, 8).eq(b): bits beyond the value are not stored
ByteStore_BigEndian(value, k, b) ==
    IF k < WordBytes
    THEN value - ((value \div Pow(ByteMod, WordBytes - 1 - k)) % ByteMod)
                     * Pow(ByteMod, WordBytes - 1 - k)
               + b * Pow(ByteMod, WordBytes - 1 - k)
    ELSE value

ByteStore(value, k, b) ==
    IF k < WordBytes
    THEN value - ByteSelect(value, k) * Pow(ByteMod, k) + b * Pow(ByteMod, k)
    ELSE value

\* valueByte.inc(): an assignment truncates to the signal's width
Inc(v) == (v + 1) % ValueByteMod

\* ---- combinatorial outputs of one cycle (unassigned ones are 0)
Drive(ss, sd, rd, sr, sw) ==
    /\ sendStart' = ss
    /\ sendData' = sd
    /\ recvDone' = rd
    /\ startRead' = sr
    /\ startWrite' = sw

Quiet == Drive(FALSE, 0, FALSE, FALSE, FALSE)

Send(b) == Drive(TRUE, b, FALSE, FALSE, FALSE)

\* ---- history
Logged(b) == IF Len(sent) < MaxSent THEN Append(sent, b) ELSE sent

Latched(b) ==
    IF rx # TooMany /\ Len(rx) < MaxRx THEN Append(rx, b) ELSE TooMany

First(b) == IF firstSent = NoByte THEN b ELSE firstSent

Counted(n, b) == IF b = Ack THEN Min(n + 1, MaxRun) ELSE n

Powered(b) ==
    IF b \notin {CmdPowerOn, CmdPowerOff} THEN powerLog
    ELSE IF Len(powerLog) < MaxPower THEN Append(powerLog, b)
    ELSE Append(Tail(powerLog), b)

(***************************************************************************)
(* The single-wire side: SWIO (transactor), SWIOBitWriter (emitter) and     *)
(* SWIOBitReader (decoder), clocked together.  One step is one clock cycle  *)
(* of all three.  32-bit values on this side are tuples of bits, bit 0      *)
(* first, so that reversal and shifting are done as the hardware does them. *)
(***************************************************************************)

\* ---- Operation (IntEnum, auto() starts at 1; a Signal resets to 0)
OperationNone  == 0
OperationRead  == 1
OperationWrite == 2

\* ---- widths and loads of the transactor
RegBits       == 7
DataBits      == 32
BitCounterMod == 64

\* ---- the emitter's timers
bitFrequency == 8
BitPeriodMod == 64
DelayMod     == 32
FirstDelay   == 5
SecondDelay  == 20
MarkPeriod   == 4
StopPeriod   == 20

\* Cycles per period of the delay timer (platform.default_clk_frequency //
\* 1e3): the handshake depends on it only through the length of a period.
delayDuration == 3

\* The clocks (MHz) the 8 MHz divider is built for; the test bench uses 12.
BaseFrequencies == {12, 16, 24}

SwioStates == {"IDLE", "START", "WAIT_START", "SEND_REGISTER",
               "WAIT_SEND_REGISTER", "WAIT_READ_WRITE_BIT", "READ_VALUE",
               "WAIT_READ_VALUE", "WRITE_VALUE", "WAIT_WRITE_VALUE", "STOP"}

BitStates == {"RESET", "WAIT_FIRST_DELAY", "WAIT_SECOND_DELAY", "IDLE", "SETUP",
              "WAIT_SPACE", "WAIT_MARK", "STOP", "WAIT_STOP"}

ReadStates == {"IDLE", "SETUP", "CAPTURE", "FINISH", "WAIT_MARK"}

\* bits_for(n): the number of bits an unsigned n needs (at least one)
RECURSIVE BitsFor(_)
BitsFor(n) == IF n < 2 THEN 1 ELSE 1 + BitsFor(n \div 2)

\* bit k of a value below 2^31
BitOf(value, k) == IF k < 31 THEN (value \div Pow(2, k)) % 2 ELSE 0

Zeros(n) == [k \in 1..n |-> 0]

\* value[::-1] of an n-bit value, assigned to the 32-bit data register
Mirror_AsIs(value, n) ==
    [k \in 1..DataBits |-> IF k <= n THEN BitOf(value, k - 1) ELSE 0]

Mirror(value, n) ==
    [k \in 1..DataBits |-> IF k <= n THEN BitOf(value, n - k) ELSE 0]

\* data.shift_right(1)
ShiftRight(d) == [k \in 1..DataBits |-> IF k < DataBits THEN d[k + 1] ELSE 0]

\* data.shift_left(1) truncated to 32 bits, then data[0] = b
ShiftIn_High(d, b) == [k \in 1..DataBits |-> IF k = DataBits THEN b ELSE d[k + 1]]

ShiftIn(d, b) == [k \in 1..DataBits |-> IF k = 1 THEN b ELSE d[k - 1]]

\* ---- the 8 MHz divider (bitWriter.py 56-61, bitReader.py 42-47 and 53-58)
TimerMod == Pow(2, BitsFor(baseFrequency + bitFrequency - 1))

\* baseFrequency - timer < bitFrequency: the difference of the two unsigned
\* values is signed, which is the reading the cycle counts of
\* sim/swio.py (checkSWIOBit) agree with
TickDue(timer) == baseFrequency - timer < bitFrequency

\* the timer after a cycle in which the divider runs; on a tick the source
\* assigns timer - baseFrequency last, which overrides timer + bitFrequency
TimerStep_Carry(timer) ==
    IF TickDue(timer)
    THEN (timer + bitFrequency - baseFrequency) % TimerMod
    ELSE (timer + bitFrequency) % TimerMod

TimerStep(timer) ==
    IF TickDue(timer)
    THEN (timer - baseFrequency) % TimerMod
    ELSE (timer + bitFrequency) % TimerMod

BusRegisters ==
    /\ swioFsm = "IDLE"
    /\ swioOperation = OperationNone
    /\ data = Zeros(DataBits)
    /\ bitCounter = 0
    /\ swioDone = FALSE
    /\ bitFsm = "RESET"
    /\ bit = 0
    /\ swioReady = FALSE
    /\ bitTimer = 0
    /\ bitPeriod = 0
    /\ delayTimer = delayDuration - 1
    /\ delay = 0
    /\ o = 0
    /\ oe = 0
    /\ finish = FALSE
    /\ readFsm = "IDLE"
    /\ readBit = 0
    /\ error = FALSE
    /\ readTimer = 0
    /\ readPeriod = 0
    /\ markTimer = 0
    /\ markPeriod = 0
    /\ readFinish = FALSE
    /\ lineIn = 1
    /\ lowTicks = 0
    /\ readMarks = 0
    /\ lowCycles = 0
    /\ readTimer0 = 0
    /\ targetLow = 0
    /\ targetReg = <<>>
    /\ targetValue = Zeros(DataBits)
    /\ targetIndex = 0
    /\ wire = <<>>
    /\ spaceCycles = 0
    /\ spaceTicks = 0
    /\ markCycles = 0
    /\ markTicks = 0
    /\ phases = <<>>
    /\ periods = 0
    /\ decoded = <<>>
    /\ finishes = 0
    /\ timer0 = 0
    /\ transactions = 0
    /\ pending = 0

\* the dispatcher on its own: the single-wire side stays as built
BusReset == baseFrequency = 12 /\ targetKind = "answers" /\ BusRegisters

\* ---- SWIOBitWriter

\* SETUP: the space of a '1' is 2T, the space of a '0' is 8T
SpacePeriod_Same(b) == 8

SpacePeriod(b) == IF b = 1 THEN 2 ELSE 8

\* the delay block runs and a period of the delay timer ends in this cycle
DelayTick == delay # 0 /\ delayTimer = 0

\* the divider runs and counts a tick off bitPeriod in this cycle
BitTick == bitPeriod # 0 /\ TickDue(bitTimer)

\* delay and bitPeriod as the two blocks leave them; the FSM's own
\* assignments come later in the source and win
DelayBlock_Fast == IF delay # 0 THEN (delay - 1) % DelayMod ELSE delay

DelayBlock == IF DelayTick THEN (delay - 1) % DelayMod ELSE delay

PeriodBlock == IF BitTick THEN (bitPeriod - 1) % BitPeriodMod ELSE bitPeriod

WriterTimers ==
    /\ delayTimer' = IF delay = 0 THEN delayTimer
                     ELSE IF delayTimer = 0 THEN delayDuration - 1
                     ELSE delayTimer - 1
    /\ bitTimer' = IF bitPeriod = 0 THEN bitTimer ELSE TimerStep(bitTimer)

\* WAIT_MARK, WAIT_STOP: self.finish during this cycle
WriterFinish == bitFsm \in {"WAIT_MARK", "WAIT_STOP"} /\ bitPeriod = 0

Writer_RESET ==
    /\ bitFsm = "RESET"
    /\ o' = 1
    /\ oe' = 1
    /\ delay' = FirstDelay
    /\ bitFsm' = "WAIT_FIRST_DELAY"
    /\ bitPeriod' = PeriodBlock
    /\ UNCHANGED swioReady

Writer_WAIT_FIRST_DELAY_High ==
    /\ bitFsm = "WAIT_FIRST_DELAY"
    /\ IF delay = 0
       THEN /\ delay' = SecondDelay
            /\ bitFsm' = "WAIT_SECOND_DELAY"
       ELSE /\ delay' = DelayBlock
            /\ UNCHANGED bitFsm
    /\ bitPeriod' = PeriodBlock
    /\ UNCHANGED <<o, oe, swioReady>>

Writer_WAIT_FIRST_DELAY ==
    /\ bitFsm = "WAIT_FIRST_DELAY"
    /\ IF delay = 0
       THEN /\ o' = 0
            /\ delay' = SecondDelay
            /\ bitFsm' = "WAIT_SECOND_DELAY"
       ELSE /\ delay' = DelayBlock
            /\ UNCHANGED <<o, bitFsm>>
    /\ bitPeriod' = PeriodBlock
    /\ UNCHANGED <<oe, swioReady>>

Writer_WAIT_SECOND_DELAY ==
    /\ bitFsm = "WAIT_SECOND_DELAY"
    /\ IF delay = 0
       THEN /\ oe' = 0
            /\ swioReady' = TRUE
            /\ bitFsm' = "IDLE"
       ELSE UNCHANGED <<oe, swioReady, bitFsm>>
    /\ delay' = DelayBlock
    /\ bitPeriod' = PeriodBlock
    /\ UNCHANGED o

Writer_IDLE(start, stop) ==
    /\ bitFsm = "IDLE"
    /\ bitFsm' = IF start THEN "SETUP" ELSE IF stop THEN "STOP" ELSE "IDLE"
    /\ delay' = DelayBlock
    /\ bitPeriod' = PeriodBlock
    /\ UNCHANGED <<o, oe, swioReady>>

Writer_SETUP ==
    /\ bitFsm = "SETUP"
    /\ bitPeriod' = SpacePeriod(bit)
    /\ oe' = 1
    /\ bitFsm' = "WAIT_SPACE"
    /\ delay' = DelayBlock
    /\ UNCHANGED <<o, swioReady>>

Writer_WAIT_SPACE ==
    /\ bitFsm = "WAIT_SPACE"
    /\ IF bitPeriod = 0
       THEN /\ bitPeriod' = MarkPeriod
            /\ oe' = 0
            /\ bitFsm' = "WAIT_MARK"
       ELSE /\ bitPeriod' = PeriodBlock
            /\ UNCHANGED <<oe, bitFsm>>
    /\ delay' = DelayBlock
    /\ UNCHANGED <<o, swioReady>>

Writer_WAIT_MARK_Held ==
    /\ bitFsm = "WAIT_MARK"
    /\ bitFsm' = IF bitPeriod = 0 /\ finish THEN "IDLE" ELSE "WAIT_MARK"
    /\ bitPeriod' = PeriodBlock
    /\ delay' = DelayBlock
    /\ UNCHANGED <<o, oe, swioReady>>

Writer_WAIT_MARK ==
    /\ bitFsm = "WAIT_MARK"
    /\ bitFsm' = IF bitPeriod = 0 THEN "IDLE" ELSE "WAIT_MARK"
    /\ bitPeriod' = PeriodBlock
    /\ delay' = DelayBlock
    /\ UNCHANGED <<o, oe, swioReady>>

Writer_STOP_Driven ==
    /\ bitFsm = "STOP"
    /\ bitPeriod' = StopPeriod
    /\ oe' = 1
    /\ bitFsm' = "WAIT_STOP"
    /\ delay' = DelayBlock
    /\ UNCHANGED <<o, swioReady>>

Writer_STOP ==
    /\ bitFsm = "STOP"
    /\ bitPeriod' = StopPeriod
    /\ bitFsm' = "WAIT_STOP"
    /\ delay' = DelayBlock
    /\ UNCHANGED <<o, oe, swioReady>>

Writer_WAIT_STOP ==
    /\ bitFsm = "WAIT_STOP"
    /\ bitFsm' = IF bitPeriod = 0 THEN "IDLE" ELSE "WAIT_STOP"
    /\ bitPeriod' = PeriodBlock
    /\ delay' = DelayBlock
    /\ UNCHANGED <<o, oe, swioReady>>

\* one clock cycle of the emitter, given bitWriter.start and bitWriter.stop
BitWriter(start, stop) ==
    /\ WriterTimers
    /\ finish' = WriterFinish
    /\ \/ Writer_RESET
       \/ Writer_WAIT_FIRST_DELAY
       \/ Writer_WAIT_SECOND_DELAY
       \/ Writer_IDLE(start, stop)
       \/ Writer_SETUP
       \/ Writer_WAIT_SPACE
       \/ Writer_WAIT_MARK
       \/ Writer_STOP
       \/ Writer_WAIT_STOP

\* ---- SWIOBitReader

ReadPeriodMod == 128
MarkPeriodMod == 8
ErrorPeriod   == 96
ReadMark      == 4

\* FINISH: bitPeriod <= 4 reads as a '1', anything longer as a '0'
Classify_Wide(period) == IF period <= 2 * 4 THEN 1 ELSE 0

Classify(period) == IF period <= 4 THEN 1 ELSE 0

\* the two blocks: count ticks while swio.i is low; count the mark down
ReadBlock(i) ==
    IF i = 0 /\ TickDue(readTimer) THEN (readPeriod + 1) % ReadPeriodMod
    ELSE readPeriod

MarkBlock ==
    IF markPeriod # 0 /\ TickDue(markTimer) THEN (markPeriod - 1) % MarkPeriodMod
    ELSE markPeriod

ReaderTimers(i) ==
    /\ readTimer' = IF i = 0 THEN TimerStep(readTimer) ELSE readTimer
    /\ markTimer' = IF markPeriod # 0 THEN TimerStep(markTimer) ELSE markTimer

\* WAIT_MARK: self.finish during this cycle
ReaderFinish == readFsm = "WAIT_MARK" /\ markPeriod = 0

Reader_IDLE(start, i) ==
    /\ readFsm = "IDLE"
    /\ IF start
       THEN /\ readPeriod' = 0
            /\ error' = FALSE
            /\ readFsm' = IF i = 1 THEN "SETUP" ELSE "CAPTURE"
       ELSE /\ readPeriod' = ReadBlock(i)
            /\ UNCHANGED <<error, readFsm>>
    /\ markPeriod' = MarkBlock
    /\ UNCHANGED readBit

Reader_SETUP(i) ==
    /\ readFsm = "SETUP"
    /\ readFsm' = IF i = 0 THEN "CAPTURE" ELSE "SETUP"
    /\ readPeriod' = ReadBlock(i)
    /\ markPeriod' = MarkBlock
    /\ UNCHANGED <<error, readBit>>

\* CAPTURE: (swio.i == 0) & (bitPeriod == 96)
StuckAt_Never(i) == FALSE

StuckAt(i) == i = 0 /\ readPeriod = ErrorPeriod

Reader_CAPTURE(i) ==
    /\ readFsm = "CAPTURE"
    /\ IF StuckAt(i)
       THEN /\ error' = TRUE
            /\ markPeriod' = ReadMark
            /\ readFsm' = "FINISH"
       ELSE IF i = 1
       THEN /\ markPeriod' = ReadMark
            /\ readFsm' = "FINISH"
            /\ UNCHANGED error
       ELSE /\ markPeriod' = MarkBlock
            /\ UNCHANGED <<error, readFsm>>
    /\ readPeriod' = ReadBlock(i)
    /\ UNCHANGED readBit

Reader_FINISH(i) ==
    /\ readFsm = "FINISH"
    /\ readBit' = Classify(readPeriod)
    /\ readFsm' = "WAIT_MARK"
    /\ readPeriod' = ReadBlock(i)
    /\ markPeriod' = MarkBlock
    /\ UNCHANGED error

Reader_WAIT_MARK(i) ==
    /\ readFsm = "WAIT_MARK"
    /\ readFsm' = IF markPeriod = 0 THEN "IDLE" ELSE "WAIT_MARK"
    /\ readPeriod' = ReadBlock(i)
    /\ markPeriod' = MarkBlock
    /\ UNCHANGED <<error, readBit>>

\* one clock cycle of the decoder, given bitReader.start and swio.i
BitReader(start, i) ==
    /\ ReaderTimers(i)
    /\ readFinish' = ReaderFinish
    /\ \/ Reader_IDLE(start, i)
       \/ Reader_SETUP(i)
       \/ Reader_CAPTURE(i)
       \/ Reader_FINISH(i)
       \/ Reader_WAIT_MARK(i)

\* low cycles of a bit-read are counted up to one past the longest nominal
\* pulse, the 12 cycles of a '0' at 12 MHz
MaxLowCycles == 13

\* what the decoder has counted: ticks while the line is low from the start
\* of a bit-read to the end of its capture, and ticks of the mark after it
Heard(i) ==
    /\ lineIn' = i
    /\ lowTicks' = IF readFsm = "IDLE" THEN 0
                   ELSE IF readFsm \in {"SETUP", "CAPTURE"} /\ i = 0
                           /\ TickDue(readTimer)
                   THEN lowTicks + 1
                   ELSE lowTicks
    /\ readMarks' = IF readFsm = "CAPTURE" THEN 0
                    ELSE IF markPeriod # 0 /\ TickDue(markTimer) THEN readMarks + 1
                    ELSE readMarks
    /\ lowCycles' = IF readFsm = "IDLE" THEN 0
                    ELSE IF readFsm \in {"SETUP", "CAPTURE"} /\ i = 0
                    THEN Min(lowCycles + 1, MaxLowCycles)
                    ELSE lowCycles
    /\ readTimer0' = IF readFsm = "IDLE" THEN readTimer ELSE readTimer0

\* ---- the line and the target on it

\* swio.i: the line idles high and is low while the emitter or the target
\* pulls it down; a stuck line reads low for the whole of a transaction
Line ==
    IF (targetKind = "stuck" /\ pending > 0) \/ targetLow > 0 \/ (oe = 1 /\ o = 0)
    THEN 0 ELSE 1

\* cycles the target holds the line low for a bit: 2T or 8T, and the cycle
\* the test bench (assertSWIOBit) takes to let go
PulseCycles(b) == (SpacePeriod(b) * baseFrequency) \div bitFrequency + 1

\* the fields of a transaction as they went over the wire, first bit first
WireAddress == SubSeq(wire, 2, 1 + RegBits)

WireDirection == wire[2 + RegBits]

WireData == SubSeq(wire, 3 + RegBits, 2 + RegBits + DataBits)

\* the target answers a bit-read when the decoder waits for the line to fall
Answering ==
    targetKind = "answers" /\ readFsm = "SETUP" /\ Line = 1 /\ targetIndex < DataBits

\* the bit the target answers next: the value it stores for the register
\* addressed, most significant bit first
AnswerBit ==
    IF WireAddress = targetReg THEN targetValue[targetIndex + 1] ELSE 0

\* one clock cycle of the target; accept: a transaction starts in this cycle
Target(accept) ==
    /\ UNCHANGED targetKind
    /\ IF targetLow > 0 THEN targetLow' = targetLow - 1
       ELSE IF Answering THEN targetLow' = PulseCycles(AnswerBit)
       ELSE targetLow' = 0
    /\ targetIndex' = IF accept THEN 0
                      ELSE IF targetLow = 0 /\ Answering THEN targetIndex + 1
                      ELSE targetIndex
    /\ IF bitFsm = "WAIT_STOP" /\ WriterFinish /\ Len(wire) = 3 + RegBits + DataBits
          /\ WireDirection = 1
       THEN /\ targetReg' = WireAddress
            /\ targetValue' = WireData
       ELSE UNCHANGED <<targetReg, targetValue>>

\* ---- what an observer of the line and of the transactor has seen
StopMarker == 2

Trace(accept) ==
    /\ wire' = IF accept THEN <<>>
               ELSE IF bitFsm = "SETUP" THEN Append(wire, bit)
               ELSE IF bitFsm = "STOP" THEN Append(wire, StopMarker)
               ELSE wire
    /\ LET timed == bitFsm \in {"WAIT_SPACE", "WAIT_MARK", "WAIT_STOP"}
           fresh == bitFsm \in {"SETUP", "STOP"}
       IN  /\ spaceCycles' = IF fresh THEN 0
                             ELSE IF timed /\ oe = 1 THEN spaceCycles + 1
                             ELSE spaceCycles
           /\ markCycles' = IF fresh THEN 0
                            ELSE IF timed /\ oe = 0 THEN markCycles + 1
                            ELSE markCycles
           /\ spaceTicks' = IF fresh THEN 0
                            ELSE IF timed /\ oe = 1 /\ BitTick THEN spaceTicks + 1
                            ELSE spaceTicks
           /\ markTicks' = IF fresh THEN 0
                           ELSE IF timed /\ oe = 0 /\ BitTick THEN markTicks + 1
                           ELSE markTicks
    /\ IF bitFsm \in {"WAIT_FIRST_DELAY", "WAIT_SECOND_DELAY"}
       THEN IF delay = 0
            THEN /\ phases' = Append(phases, <<o, oe, periods>>)
                 /\ periods' = 0
            ELSE /\ periods' = IF DelayTick THEN periods + 1 ELSE periods
                 /\ UNCHANGED phases
       ELSE UNCHANGED <<phases, periods>>
    /\ decoded' = IF accept THEN <<>>
                  ELSE IF ReaderFinish THEN Append(decoded, readBit)
                  ELSE decoded
    /\ finishes' = IF accept THEN 0
                   ELSE IF WriterFinish THEN finishes + 1
                   ELSE finishes
    /\ timer0' = IF bitFsm = "SETUP" THEN bitTimer ELSE timer0

\* what a cycle of the single-wire side leaves of the dispatcher: connected,
\* the dispatcher takes the cycle itself
Upstream ==
    /\ UNCHANGED <<wiring, baseFrequency>>
    /\ IF wiring = "interface" THEN TRUE
       ELSE UNCHANGED <<fsm, targetPower, operation, valueByte, sendStart, sendData,
                        recvDone, hist>>

\* one clock cycle of everything below the transactor, given the transactor's
\* combinatorial outputs bitWriter.start, bitWriter.stop and bitReader.start
Clock(start, stop, readStart, accept) ==
    /\ BitWriter(start, stop)
    /\ BitReader(readStart, Line)
    /\ Heard(Line)
    /\ Target(accept)
    /\ Trace(accept)
    /\ Upstream

(***************************************************************************)
(* The wiring.  "host": the dispatcher alone, its ready, done and dataRead  *)
(* inputs free.  "bench": the single-wire side alone, started as the test   *)
(* bench starts it, one transaction after the other.  "pulses": the         *)
(* single-wire side alone, its start inputs free while it is busy.          *)
(* "interface": the dispatcher and the single-wire side connected as        *)
(* ICELinkInterface connects them, both taking every clock cycle together.  *)
(* "line": the decoder alone, its start input and the line free.            *)
(***************************************************************************)
Linked == wiring = "interface"

\* STOP: done is raised when the emitter finishes the stop marker
StopDone_NoWait == TRUE

StopDone_Never == FALSE

StopDone == WriterFinish

\* protocol.ready.eq(swio.ready), protocol.done.eq(swio.done)
ReadyInputs == IF Linked THEN {swioReady} ELSE BOOLEAN

DoneInputs == IF Linked THEN {swioFsm = "STOP" /\ StopDone} ELSE BOOLEAN

\* byte k of a 32-bit value held as a tuple of bits
ByteOfBits(d, k) ==
    IF k < WordBytes
    THEN d[8 * k + 1] + 2 * d[8 * k + 2] + 4 * d[8 * k + 3] + 8 * d[8 * k + 4]
         + 16 * d[8 * k + 5] + 32 * d[8 * k + 6] + 64 * d[8 * k + 7]
         + 128 * d[8 * k + 8]
    ELSE 0

\* protocol.dataRead.eq(swio.dataRead): dataRead.bit_select(8 * k, 8)
ResultByte(k) == IF Linked THEN ByteOfBits(dataRead, k) ELSE ByteSelect(dataRead, k)

\* what a cycle of the dispatcher leaves of the single-wire side: connected,
\* that side takes the cycle itself
Downstream ==
    /\ UNCHANGED wiring
    /\ IF Linked THEN TRUE ELSE UNCHANGED <<bus, dataRead>>

\* WAIT_READ: dataRead as the transactor has latched it when done is seen
Result(done) ==
    /\ UNCHANGED wiring
    /\ IF Linked THEN TRUE
       ELSE /\ UNCHANGED bus
            /\ IF done THEN dataRead' \in Words ELSE UNCHANGED dataRead

\* the dispatcher after construction: every Signal at its reset value
ProtocolReset ==
    /\ fsm = "INIT"
    /\ targetPower = 0
    /\ reg = 0
    /\ dataWrite = 0
    /\ operation = OpNone
    /\ valueByte = 0
    /\ sendStart = FALSE
    /\ sendData = 0
    /\ recvDone = FALSE
    /\ startRead = FALSE
    /\ startWrite = FALSE
    /\ cmd = NoByte
    /\ sent = <<>>
    /\ rx = <<>>
    /\ starts = 0
    /\ inflight = FALSE
    /\ greetings = 0
    /\ firstSent = NoByte
    /\ everReady = FALSE
    /\ testRun = 0
    /\ testAcks = 0
    /\ powerLog = <<>>

Init ==
    /\ wiring = "host"
    /\ ProtocolReset
    /\ dataRead = 0
    /\ BusReset

\* INIT: self.sendReady & self.ready
GreetingDue_SendOnly(sendReady, ready) == sendReady

GreetingDue(sendReady, ready) == sendReady /\ ready

\* State 'INIT'
INIT ==
    /\ fsm = "INIT"
    /\ Downstream
    /\ \E sendReady \in BOOLEAN, ready \in ReadyInputs :
         /\ everReady' = (everReady \/ (sendReady /\ ready))
         /\ IF GreetingDue(sendReady, ready)
            THEN /\ Send(Greeting)
                 /\ fsm' = "WAIT_COMMAND"
                 /\ sent' = Logged(Greeting)
                 /\ firstSent' = First(Greeting)
                 /\ greetings' = Min(greetings + 1, MaxPulses)
            ELSE /\ Quiet
                 /\ UNCHANGED <<fsm, sent, firstSent, greetings>>
    /\ UNCHANGED <<targetPower, reg, dataWrite, operation, valueByte>>
    /\ UNCHANGED <<cmd, rx, starts, inflight, testRun, testAcks, powerLog>>

\* State 'WAIT_COMMAND'
WAIT_COMMAND ==
    /\ fsm = "WAIT_COMMAND"
    /\ Downstream
    /\ \E recvReady \in BOOLEAN :
         IF recvReady
         THEN /\ Drive(FALSE, 0, TRUE, FALSE, FALSE)
              /\ fsm' = "DISPATCH"
              /\ cmd' = NoByte
              /\ sent' = <<>>
              /\ rx' = <<>>
              /\ starts' = 0
         ELSE /\ Quiet
              /\ UNCHANGED <<fsm, cmd, sent, rx, starts>>
    /\ UNCHANGED <<targetPower, reg, dataWrite, operation, valueByte>>
    /\ UNCHANGED <<inflight, greetings, firstSent, everReady, testRun, testAcks,
                   powerLog>>

\* DISPATCH: m.next of each case of the Switch on recvData
CommandNext_AckAll(b) ==
    IF b \in {CmdWrite, CmdRead} THEN "RECV_REG_NUMBER" ELSE "SEND_ACK"

CommandNext_Restart(b) ==
    CASE b \in {CmdTest, CmdPowerOn, CmdPowerOff} -> "SEND_ACK"
      [] b \in {CmdWrite, CmdRead} -> "RECV_REG_NUMBER"
      [] OTHER -> "INIT"

CommandNext(b) ==
    CASE b = CmdTest -> "SEND_ACK"
      [] b = CmdPowerOn -> "SEND_ACK"
      [] b = CmdPowerOff -> "SEND_ACK"
      [] b = CmdWrite -> "RECV_REG_NUMBER"
      [] b = CmdRead -> "RECV_REG_NUMBER"
      [] OTHER -> "WAIT_COMMAND"

\* DISPATCH: m.d.sync += self.targetPower.eq(...)
CommandPower_TestClears(b, power) ==
    CASE b = CmdPowerOn -> 1
      [] b \in {CmdPowerOff, CmdTest} -> 0
      [] OTHER -> power

CommandPower_Toggle(b, power) ==
    CASE b \in {CmdPowerOn, CmdPowerOff} -> 1 - power
      [] OTHER -> power

CommandPower(b, power) ==
    CASE b = CmdPowerOn -> 1
      [] b = CmdPowerOff -> 0
      [] OTHER -> power

\* DISPATCH: m.d.sync += operation.eq(...)
CommandOperation(b, op) ==
    CASE b = CmdWrite -> OpWrite
      [] b = CmdRead -> OpRead
      [] OTHER -> op

\* State 'DISPATCH'
DISPATCH ==
    /\ fsm = "DISPATCH"
    /\ Downstream
    /\ \E recvData \in CommandBytes :
         /\ cmd' = recvData
         /\ testRun' = IF recvData = CmdTest THEN Min(testRun + 1, MaxRun) ELSE 0
         /\ testAcks' = IF recvData = CmdTest /\ testRun > 0 THEN testAcks ELSE 0
         /\ powerLog' = Powered(recvData)
         /\ fsm' = CommandNext(recvData)
         /\ targetPower' = CommandPower(recvData, targetPower)
         /\ operation' = CommandOperation(recvData, operation)
    /\ Quiet
    /\ UNCHANGED <<reg, dataWrite, valueByte>>
    /\ UNCHANGED <<sent, rx, starts, inflight, greetings, firstSent, everReady>>

\* State 'RECV_REG_NUMBER'
RECV_REG_NUMBER ==
    /\ fsm = "RECV_REG_NUMBER"
    /\ Downstream
    /\ \E recvReady \in BOOLEAN :
         IF recvReady
         THEN /\ Drive(FALSE, 0, TRUE, FALSE, FALSE)
              /\ fsm' = "RECV_REGISTER"
         ELSE /\ Quiet
              /\ UNCHANGED fsm
    /\ UNCHANGED <<targetPower, reg, dataWrite, operation, valueByte>>
    /\ UNCHANGED hist

\* RECV_REGISTER: self.reg.eq(self.recvData), an 8-bit value into 7 bits
RegisterOf(b) == b % RegMod

\* State 'RECV_REGISTER'
RECV_REGISTER ==
    /\ fsm = "RECV_REGISTER"
    /\ Downstream
    /\ \E recvData \in RegisterBytes :
         /\ reg' = RegisterOf(recvData)
         /\ rx' = Latched(recvData)
    /\ IF operation = OpRead
       THEN /\ Drive(FALSE, 0, FALSE, TRUE, FALSE)
            /\ fsm' = "WAIT_READ"
            /\ starts' = Min(starts + 1, MaxPulses)
            /\ inflight' = TRUE
            /\ UNCHANGED valueByte
       ELSE IF operation = OpWrite
       THEN /\ Quiet
            /\ valueByte' = 0
            /\ fsm' = "RECV_WRITE_VALUE"
            /\ UNCHANGED <<starts, inflight>>
       ELSE /\ Quiet
            /\ UNCHANGED <<fsm, valueByte, starts, inflight>>
    /\ UNCHANGED <<targetPower, dataWrite, operation>>
    /\ UNCHANGED <<cmd, sent, greetings, firstSent, everReady, testRun, testAcks,
                   powerLog>>

\* State 'WAIT_READ'; the transactor latches its result before it pulses done
WAIT_READ ==
    /\ fsm = "WAIT_READ"
    /\ \E done \in DoneInputs :
         /\ Result(done)
         /\ IF done
            THEN /\ valueByte' = 0
                 /\ fsm' = "SEND_READ_VALUE"
                 /\ inflight' = FALSE
            ELSE UNCHANGED <<valueByte, fsm, inflight>>
    /\ Quiet
    /\ UNCHANGED <<targetPower, reg, dataWrite, operation>>
    /\ UNCHANGED <<cmd, sent, rx, starts, greetings, firstSent, everReady,
                   testRun, testAcks, powerLog>>

\* SEND_READ_VALUE: m.next once the last byte has gone
ReadValueNext_Ack == "SEND_ACK"

ReadValueNext == "WAIT_COMMAND"

\* State 'SEND_READ_VALUE'
SEND_READ_VALUE ==
    /\ fsm = "SEND_READ_VALUE"
    /\ Downstream
    /\ \E sendReady \in BOOLEAN :
         IF sendReady
         THEN /\ Send(ResultByte(valueByte))
              /\ valueByte' = Inc(valueByte)
              /\ sent' = Logged(ResultByte(valueByte))
              /\ firstSent' = First(ResultByte(valueByte))
              /\ testAcks' = Counted(testAcks, ResultByte(valueByte))
              /\ UNCHANGED fsm
         ELSE IF valueByte = WordBytes
         THEN /\ Quiet
              /\ fsm' = ReadValueNext
              /\ UNCHANGED <<valueByte, sent, firstSent, testAcks>>
         ELSE /\ Quiet
              /\ UNCHANGED <<fsm, valueByte, sent, firstSent, testAcks>>
    /\ UNCHANGED <<targetPower, reg, dataWrite, operation>>
    /\ UNCHANGED <<cmd, rx, starts, inflight, greetings, everReady, testRun,
                   powerLog>>

\* State 'RECV_WRITE_VALUE'
RECV_WRITE_VALUE ==
    /\ fsm = "RECV_WRITE_VALUE"
    /\ Downstream
    /\ \E recvReady \in BOOLEAN :
         IF recvReady
         THEN /\ Drive(FALSE, 0, TRUE, FALSE, FALSE)
              /\ fsm' = "GRAB_WRITE_VALUE"
              /\ UNCHANGED <<starts, inflight>>
         ELSE IF valueByte = WordBytes
         THEN /\ Drive(FALSE, 0, FALSE, FALSE, TRUE)
              /\ fsm' = "WAIT_WRITE"
              /\ starts' = Min(starts + 1, MaxPulses)
              /\ inflight' = TRUE
         ELSE /\ Quiet
              /\ UNCHANGED <<fsm, starts, inflight>>
    /\ UNCHANGED <<targetPower, reg, dataWrite, operation, valueByte>>
    /\ UNCHANGED <<cmd, sent, rx, greetings, firstSent, everReady, testRun, testAcks,
                   powerLog>>

\* State 'GRAB_WRITE_VALUE'
GRAB_WRITE_VALUE ==
    /\ fsm = "GRAB_WRITE_VALUE"
    /\ Downstream
    /\ \E recvData \in DataBytes :
         /\ dataWrite' = ByteStore(dataWrite, valueByte, recvData)
         /\ rx' = Latched(recvData)
    /\ valueByte' = Inc(valueByte)
    /\ fsm' = "RECV_WRITE_VALUE"
    /\ Quiet
    /\ UNCHANGED <<targetPower, reg, operation>>
    /\ UNCHANGED <<cmd, sent, starts, inflight, greetings, firstSent, everReady,
                   testRun, testAcks, powerLog>>

\* WAIT_WRITE: m.next under m.If(self.done)
WaitWriteNext_NoWait(done) == "SEND_ACK"

WaitWriteNext(done) == IF done THEN "SEND_ACK" ELSE "WAIT_WRITE"

\* State 'WAIT_WRITE'
WAIT_WRITE ==
    /\ fsm = "WAIT_WRITE"
    /\ Downstream
    /\ \E done \in DoneInputs :
         /\ fsm' = WaitWriteNext(done)
         /\ inflight' = (inflight /\ ~done)
    /\ Quiet
    /\ UNCHANGED <<targetPower, reg, dataWrite, operation, valueByte>>
    /\ UNCHANGED <<cmd, sent, rx, starts, greetings, firstSent, everReady,
                   testRun, testAcks, powerLog>>

\* SEND_ACK: m.next under m.If(self.sendReady)
AckNext_NoWait(sendReady) == "WAIT_COMMAND"

AckNext(sendReady) == IF sendReady THEN "WAIT_COMMAND" ELSE "SEND_ACK"

\* State 'SEND_ACK'
SEND_ACK ==
    /\ fsm = "SEND_ACK"
    /\ Downstream
    /\ \E sendReady \in BOOLEAN :
         /\ fsm' = AckNext(sendReady)
         /\ IF sendReady
            THEN /\ Send(Ack)
                 /\ sent' = Logged(Ack)
                 /\ firstSent' = First(Ack)
                 /\ testAcks' = Counted(testAcks, Ack)
            ELSE /\ Quiet
                 /\ UNCHANGED <<sent, firstSent, testAcks>>
    /\ UNCHANGED <<targetPower, reg, dataWrite, operation, valueByte>>
    /\ UNCHANGED <<cmd, rx, starts, inflight, greetings, everReady, testRun,
                   powerLog>>

Next ==
    \/ INIT
    \/ WAIT_COMMAND
    \/ DISPATCH
    \/ RECV_REG_NUMBER
    \/ RECV_REGISTER
    \/ WAIT_READ
    \/ SEND_READ_VALUE
    \/ RECV_WRITE_VALUE
    \/ GRAB_WRITE_VALUE
    \/ WAIT_WRITE
    \/ SEND_ACK

Spec == Init /\ [][Next]_vars

\* ---- SWIO


Registers == {RegisterOf(b) : b \in RegisterBytes}

\* SEND_REGISTER: operation == Operation.write
DirectionBit(op) == IF op = OperationWrite THEN 1 ELSE 0

\* the inputs of a cycle in which the transactor is busy: whoever started the
\* transaction holds reg and dataWrite and waits for done
Busy ==
    CASE wiring = "interface" -> TRUE
      [] wiring = "pulses" -> /\ startRead' \in BOOLEAN
                              /\ startWrite' \in BOOLEAN
                              /\ UNCHANGED <<reg, dataWrite>>
      [] OTHER -> /\ startRead' = FALSE
                  /\ startWrite' = FALSE
                  /\ UNCHANGED <<reg, dataWrite>>

\* swio.startRead.eq(protocol.startRead), swio.startWrite.eq(protocol.startWrite)
StartInputs(pulse) == IF Linked THEN {pulse} ELSE BOOLEAN

SWIO_IDLE ==
    /\ swioFsm = "IDLE"
    /\ \E sr \in StartInputs(startRead'), sw \in StartInputs(startWrite') :
         /\ Linked \/ ((sr \/ sw) => swioReady /\ transactions < MaxTransactions)
         /\ startRead' = sr
         /\ startWrite' = sw
         /\ IF sr \/ sw
            THEN /\ swioOperation' = IF sr THEN OperationRead ELSE OperationWrite
                 /\ swioFsm' = "START"
                 /\ Linked \/ reg' \in Registers
                 /\ Linked \/ IF sr THEN UNCHANGED dataWrite ELSE dataWrite' \in Words
                 /\ transactions' = transactions + 1
                 /\ pending' = pending + 1
            ELSE /\ UNCHANGED <<swioOperation, swioFsm, transactions, pending>>
                 /\ Linked \/ UNCHANGED <<reg, dataWrite>>
         /\ Clock(FALSE, FALSE, FALSE, sr \/ sw)
    /\ swioDone' = FALSE
    /\ UNCHANGED <<data, bitCounter, bit, dataRead>>

SWIO_START ==
    /\ swioFsm = "START"
    /\ bit' = 1
    /\ bitCounter' = 0
    /\ data' = Mirror(reg, RegBits)
    /\ swioFsm' = "WAIT_START"
    /\ swioDone' = FALSE
    /\ Busy
    /\ Clock(TRUE, FALSE, FALSE, FALSE)
    /\ UNCHANGED <<swioOperation, dataRead, transactions, pending>>

SWIO_WAIT_START ==
    /\ swioFsm = "WAIT_START"
    /\ swioFsm' = IF WriterFinish THEN "SEND_REGISTER" ELSE "WAIT_START"
    /\ swioDone' = FALSE
    /\ Busy
    /\ Clock(FALSE, FALSE, FALSE, FALSE)
    /\ UNCHANGED <<swioOperation, data, bitCounter, bit, dataRead, transactions,
                   pending>>

SWIO_SEND_REGISTER ==
    /\ swioFsm = "SEND_REGISTER"
    /\ IF bitCounter = RegBits
       THEN /\ bit' = DirectionBit(swioOperation)
            /\ swioFsm' = "WAIT_READ_WRITE_BIT"
            /\ UNCHANGED data
       ELSE /\ bit' = data[1]
            /\ data' = ShiftRight(data)
            /\ swioFsm' = "WAIT_SEND_REGISTER"
    /\ swioDone' = FALSE
    /\ Busy
    /\ Clock(TRUE, FALSE, FALSE, FALSE)
    /\ UNCHANGED <<swioOperation, bitCounter, dataRead, transactions, pending>>

SWIO_WAIT_SEND_REGISTER ==
    /\ swioFsm = "WAIT_SEND_REGISTER"
    /\ IF WriterFinish
       THEN /\ bitCounter' = (bitCounter + 1) % BitCounterMod
            /\ swioFsm' = "SEND_REGISTER"
       ELSE UNCHANGED <<bitCounter, swioFsm>>
    /\ swioDone' = FALSE
    /\ Busy
    /\ Clock(FALSE, FALSE, FALSE, FALSE)
    /\ UNCHANGED <<swioOperation, data, bit, dataRead, transactions, pending>>

SWIO_WAIT_READ_WRITE_BIT ==
    /\ swioFsm = "WAIT_READ_WRITE_BIT"
    /\ IF WriterFinish
       THEN /\ bitCounter' = 0
            /\ IF swioOperation = OperationRead
               THEN /\ swioFsm' = "READ_VALUE"
                    /\ UNCHANGED data
               ELSE IF swioOperation = OperationWrite
               THEN /\ data' = Mirror(dataWrite, DataBits)
                    /\ swioFsm' = "WRITE_VALUE"
               ELSE UNCHANGED <<data, swioFsm>>
       ELSE UNCHANGED <<bitCounter, data, swioFsm>>
    /\ swioDone' = FALSE
    /\ Busy
    /\ Clock(FALSE, FALSE, FALSE, FALSE)
    /\ UNCHANGED <<swioOperation, bit, dataRead, transactions, pending>>

\* READ_VALUE: bitWriter.triggerRead.eq(1) drives a signal the emitter does
\* not declare and has no logic for: nothing starts in the emitter
ReadTrigger_Start == TRUE

ReadTrigger == FALSE

SWIO_READ_VALUE ==
    /\ swioFsm = "READ_VALUE"
    /\ IF bitCounter = DataBits
       THEN /\ dataRead' = data
            /\ swioFsm' = "STOP"
            /\ Clock(FALSE, TRUE, FALSE, FALSE)
       ELSE /\ swioFsm' = "WAIT_READ_VALUE"
            /\ Clock(ReadTrigger, FALSE, TRUE, FALSE)
            /\ UNCHANGED dataRead
    /\ swioDone' = FALSE
    /\ Busy
    /\ UNCHANGED <<swioOperation, data, bitCounter, bit, transactions, pending>>

SWIO_WAIT_READ_VALUE ==
    /\ swioFsm = "WAIT_READ_VALUE"
    /\ IF ReaderFinish
       THEN /\ data' = ShiftIn(data, readBit)
            /\ bitCounter' = (bitCounter + 1) % BitCounterMod
            /\ swioFsm' = "READ_VALUE"
       ELSE UNCHANGED <<data, bitCounter, swioFsm>>
    /\ swioDone' = FALSE
    /\ Busy
    /\ Clock(FALSE, FALSE, FALSE, FALSE)
    /\ UNCHANGED <<swioOperation, bit, dataRead, transactions, pending>>

SWIO_WRITE_VALUE ==
    /\ swioFsm = "WRITE_VALUE"
    /\ IF bitCounter = DataBits
       THEN /\ swioFsm' = "STOP"
            /\ Clock(FALSE, TRUE, FALSE, FALSE)
            /\ UNCHANGED <<bit, data>>
       ELSE /\ bit' = data[1]
            /\ data' = ShiftRight(data)
            /\ swioFsm' = "WAIT_WRITE_VALUE"
            /\ Clock(TRUE, FALSE, FALSE, FALSE)
    /\ swioDone' = FALSE
    /\ Busy
    /\ UNCHANGED <<swioOperation, bitCounter, dataRead, transactions, pending>>

SWIO_WAIT_WRITE_VALUE ==
    /\ swioFsm = "WAIT_WRITE_VALUE"
    /\ IF WriterFinish
       THEN /\ bitCounter' = (bitCounter + 1) % BitCounterMod
            /\ swioFsm' = "WRITE_VALUE"
       ELSE UNCHANGED <<bitCounter, swioFsm>>
    /\ swioDone' = FALSE
    /\ Busy
    /\ Clock(FALSE, FALSE, FALSE, FALSE)
    /\ UNCHANGED <<swioOperation, data, bit, dataRead, transactions, pending>>

SWIO_STOP ==
    /\ swioFsm = "STOP"
    /\ swioDone' = StopDone
    /\ pending' = IF StopDone THEN pending - 1 ELSE pending
    /\ swioFsm' = IF WriterFinish THEN "IDLE" ELSE "STOP"
    /\ Busy
    /\ Clock(FALSE, FALSE, FALSE, FALSE)
    /\ UNCHANGED <<swioOperation, data, bitCounter, bit, dataRead, transactions>>

\* The state after construction, for each clock the divider is built for
InitSWIO ==
    /\ wiring = "bench"
    /\ targetKind = "answers"
    /\ ProtocolReset
    /\ dataRead = Zeros(DataBits)
    /\ baseFrequency \in BaseFrequencies
    /\ BusRegisters

NextSWIO ==
    \/ SWIO_IDLE
    \/ SWIO_START
    \/ SWIO_WAIT_START
    \/ SWIO_SEND_REGISTER
    \/ SWIO_WAIT_SEND_REGISTER
    \/ SWIO_WAIT_READ_WRITE_BIT
    \/ SWIO_READ_VALUE
    \/ SWIO_WAIT_READ_VALUE
    \/ SWIO_WRITE_VALUE
    \/ SWIO_WAIT_WRITE_VALUE
    \/ SWIO_STOP

SpecSWIO == InitSWIO /\ [][NextSWIO]_vars

\* The single-wire side against each behaviour of the line, under the clock:
\* a cycle that can change a register is taken
InitLive ==
    /\ wiring = "bench"
    /\ targetKind \in {"answers", "stuck", "silent"}
    /\ ProtocolReset
    /\ dataRead = Zeros(DataBits)
    /\ baseFrequency = 12
    /\ BusRegisters

SpecLive == InitLive /\ [][NextSWIO]_vars /\ WF_vars(NextSWIO)

\* SWIOBitReader alone: start and the line free on every cycle
InitReader ==
    /\ wiring = "line"
    /\ targetKind = "answers"
    /\ ProtocolReset
    /\ dataRead = Zeros(DataBits)
    /\ baseFrequency \in BaseFrequencies
    /\ BusRegisters

NextReader ==
    \E start \in BOOLEAN, i \in {0, 1} :
        /\ BitReader(start, i)
        /\ Heard(i)
        /\ UNCHANGED <<wiring, regs, outs, dataRead, hist, baseFrequency, transactor,
                       emitter, target, trace>>

SpecReader == InitReader /\ [][NextReader]_vars

\* ICELinkInterface, and the single-wire side under free start pulses
InitLink ==
    /\ wiring \in {"pulses", "interface"}
    /\ targetKind = "answers"
    /\ ProtocolReset
    /\ dataRead = Zeros(DataBits)
    /\ baseFrequency = 12
    /\ BusRegisters

NextLink ==
    \/ Linked /\ Next /\ NextSWIO
    \/ wiring = "pulses" /\ NextSWIO

SpecLink == InitLink /\ [][NextLink]_vars

TypeOK ==
    /\ fsm \in States
    /\ targetPower \in {0, 1}
    /\ reg \in 0..(RegMod - 1)
    /\ dataWrite >= 0
    /\ dataRead >= 0
    /\ operation \in {OpNone, OpRead, OpWrite}
    /\ valueByte \in 0..(ValueByteMod - 1)
    /\ sendData \in 0..(ByteMod - 1)
    /\ Len(sent) <= MaxSent

\* ---- helpers of the properties
Range(q) == {q[i] : i \in 1..Len(q)}

Acked == {CmdTest, CmdPowerOn, CmdPowerOff, CmdWrite}

\* Byte k (0 = least significant) of a word, by division
ByteOfWord(word, k) ==
    CASE k = 0 -> word % 256
      [] k = 1 -> (word \div 256) % 256
      [] k = 2 -> (word \div 65536) % 256
      [] k = 3 -> (word \div 16777216) % 256
      [] OTHER -> 0

(***************************************************************************)
(* C1: for the commands '?', 'p', 'P' and 'w' the dispatcher sends exactly  *)
(* one byte, the ack '+', between accepting the command and being ready to  *)
(* accept the next one: while the command runs nothing has been sent and    *)
(* the dispatcher is not in WAIT_COMMAND (where alone a command byte is     *)
(* accepted), and once it is back in WAIT_COMMAND exactly the ack was sent. *)
(***************************************************************************)
C1_OneAckPerCommand ==
    cmd \in Acked =>
        /\ fsm = "WAIT_COMMAND" => sent = <<Ack>>
        /\ fsm # "WAIT_COMMAND" => sent = <<>>
        /\ recvDone => fsm \in {"RECV_REGISTER", "GRAB_WRITE_VALUE"}

C1_Witness ==
    /\ cmd = CmdWrite
    /\ fsm = "WAIT_COMMAND"
    /\ sent = <<Ack>>
    /\ sendStart /\ sendData = Ack

C3_ReadLittleEndian ==
    cmd = CmdRead =>
        \A k \in 0..3 :
            k < Len(sent) => sent[k + 1] = ByteOfWord(dataRead, k)

C3_Witness ==
    /\ cmd = CmdRead
    /\ dataRead = 2129504853
    /\ Len(sent) >= 4
    /\ <<sent[1], sent[2], sent[3], sent[4]>> = <<85, 170, 237, 126>>

(***************************************************************************)
(* C4: when startWrite is pulsed after the register byte a and the data     *)
(* bytes b0, b1, b2, b3 were received in that order after 'w', reg is the   *)
(* low 7 bits of a and dataWrite = b0 + 256*b1 + 65536*b2 + 16777216*b3.    *)
(***************************************************************************)
C4_WriteLittleEndian ==
    (startWrite /\ rx # TooMany /\ Len(rx) = 5) =>
        /\ cmd = CmdWrite
        /\ reg = rx[1] % 128
        /\ dataWrite = rx[2] + 256 * rx[3] + 65536 * rx[4] + 16777216 * rx[5]

C4_Witness ==
    /\ startWrite
    /\ rx = <<250, 21, 85, 85, 21>>
    /\ reg = 122
    /\ dataWrite = 357913877

(***************************************************************************)
(* C5: for a write command nothing is sent while the write transaction is   *)
(* in flight (from the startWrite pulse until done is seen), and what is    *)
(* sent for the command is the single ack '+', after that done.             *)
(***************************************************************************)
C5_AckAfterDone ==
    cmd = CmdWrite =>
        /\ inflight => (sent = <<>> /\ ~sendStart)
        /\ sent # <<>> => (sent = <<Ack>> /\ starts = 1 /\ ~inflight)
        /\ fsm = "SEND_ACK" => (starts = 1 /\ ~inflight)

C5_Witness ==
    /\ cmd = CmdWrite
    /\ sendStart /\ sendData = Ack
    /\ starts = 1
    /\ ~inflight

(***************************************************************************)
(* C6: the greeting '!' has been sent exactly when a cycle with sendReady   *)
(* and ready both true has occurred: not before the first such cycle, and   *)
(* on that cycle.  Before it nothing at all is sent.                        *)
(***************************************************************************)
C6_GreetingWhenReady ==
    /\ everReady <=> greetings = 1
    /\ everReady <=> fsm # "INIT"
    /\ ~everReady => (sent = <<>> /\ firstSent = NoByte /\ ~sendStart)

C6_Witness ==
    /\ everReady
    /\ fsm = "WAIT_COMMAND"
    /\ sendStart /\ sendData = Greeting
    /\ cmd = NoByte

(***************************************************************************)
(* C7: the greeting is sent exactly once and is the first byte sent, and    *)
(* INIT is never re-entered once left, whatever the host sends.             *)
(***************************************************************************)
C7_GreetingOnceInv ==
    /\ fsm = "INIT" => (greetings = 0 /\ firstSent = NoByte)
    /\ fsm # "INIT" => (greetings = 1 /\ firstSent = Greeting)

C7_GreetingOnce ==
    /\ []C7_GreetingOnceInv
    /\ [][fsm # "INIT" => fsm' # "INIT"]_vars

C7_Witness ==
    /\ greetings = 1
    /\ firstSent = Greeting
    /\ cmd \in CommandBytes \ Recognised
    /\ fsm = "WAIT_COMMAND"

(***************************************************************************)
(* C8: a command byte other than '?', 'p', 'P', 'w', 'r' sends nothing,     *)
(* pulses neither startRead nor startWrite, leaves targetPower, reg and     *)
(* dataWrite unchanged and returns the dispatcher to WAIT_COMMAND.          *)
(***************************************************************************)
C8_UnknownInv ==
    (cmd # NoByte /\ cmd \notin Recognised) =>
        /\ fsm = "WAIT_COMMAND"
        /\ sent = <<>>
        /\ starts = 0
        /\ ~sendStart /\ ~startRead /\ ~startWrite /\ ~recvDone

C8_UnknownIgnored ==
    /\ []C8_UnknownInv
    /\ [][(cmd' # NoByte /\ cmd' \notin Recognised) =>
              UNCHANGED <<targetPower, reg, dataWrite>>]_vars

C8_Witness ==
    /\ cmd = 250
    /\ fsm = "WAIT_COMMAND"
    /\ targetPower = 1
    /\ reg = 122
    /\ dataWrite # 0

(***************************************************************************)
(* C9: n consecutive '?' commands yield exactly n '+' bytes, one per        *)
(* request, pulse neither startRead nor startWrite and leave targetPower,   *)
(* reg and dataWrite unchanged.                                             *)
(***************************************************************************)
C9_TestInv ==
    cmd = CmdTest =>
        /\ starts = 0 /\ ~startRead /\ ~startWrite /\ ~inflight
        /\ fsm \in {"SEND_ACK", "WAIT_COMMAND"}
        /\ fsm = "WAIT_COMMAND" => (sent = <<Ack>> /\ testAcks = testRun)
        /\ fsm = "SEND_ACK" =>
               (sent = <<>> /\ (testRun < MaxRun => testAcks = testRun - 1))

C9_TestIdempotent ==
    /\ []C9_TestInv
    /\ [][cmd' = CmdTest => UNCHANGED <<targetPower, reg, dataWrite>>]_vars

C9_Witness ==
    /\ cmd = CmdTest
    /\ fsm = "WAIT_COMMAND"
    /\ testRun = 2 /\ testAcks = 2
    /\ targetPower = 1
    /\ dataWrite # 0

(***************************************************************************)
(* C10: targetPower is 0 after reset, 1 if the most recent of the 'p'/'P'   *)
(* commands dispatched was 'p' and 0 otherwise, and it changes only when    *)
(* 'p' or 'P' is dispatched.                                                *)
(***************************************************************************)
C10_PowerInv ==
    targetPower = IF powerLog # <<>> /\ powerLog[Len(powerLog)] = CmdPowerOn
                  THEN 1 ELSE 0

C10_PowerFollowsCommand ==
    /\ []C10_PowerInv
    /\ [][targetPower' # targetPower =>
              (fsm = "DISPATCH" /\ cmd' \in {CmdPowerOn, CmdPowerOff})]_vars

C10_Witness ==
    /\ powerLog = <<CmdPowerOn, CmdPowerOff>>
    /\ targetPower = 0
    /\ cmd = CmdTest
    /\ fsm = "WAIT_COMMAND"

(***************************************************************************)
(* C12. A write transaction puts on the wire, in this order and nothing     *)
(* else, one start marker, exactly 7 address bits, exactly one direction    *)
(* bit, exactly 32 data bits and then one stop marker; done is asserted     *)
(* only when the stop marker finishes, after which the transactor is IDLE.  *)
(* While a write is under way the symbols emitted so far are bits up to     *)
(* the 41st and the stop marker as the 42nd, and the decoder is never       *)
(* used; on the cycle after done there are exactly 42 of them, the emitter  *)
(* has just signalled finish for the stop marker and both FSMs are IDLE.    *)
(***************************************************************************)
C12_WriteFraming ==
    /\ (pending = 1 /\ swioOperation = OperationWrite) =>
          /\ Len(wire) <= 1 + 7 + 1 + 32 + 1
          /\ \A k \in 1..Len(wire) :
                IF k = 1 + 7 + 1 + 32 + 1 THEN wire[k] = StopMarker
                ELSE wire[k] \in {0, 1}
          /\ decoded = <<>>
          /\ ~swioDone
    /\ (swioDone /\ swioOperation = OperationWrite) =>
          /\ Len(wire) = 1 + 7 + 1 + 32 + 1
          /\ wire[Len(wire)] = StopMarker
          /\ \A k \in 1..(Len(wire) - 1) : wire[k] \in {0, 1}
          /\ decoded = <<>>
          /\ finish
          /\ bitFsm = "IDLE"
          /\ swioFsm = "IDLE"
          /\ pending = 0

C12_Witness ==
    /\ swioDone
    /\ swioOperation = OperationWrite
    /\ Len(wire) = 42
    /\ wire[42] = StopMarker
    /\ swioFsm = "IDLE"

(***************************************************************************)
(* C13. For every register value r and write data d, the start marker is    *)
(* emitted as a '1', the i-th address bit emitted (i = 0..6) is bit 6-i of  *)
(* r, the direction bit emitted is 1 for a write and 0 for a read, and the  *)
(* i-th data bit emitted (i = 0..31) is bit 31-i of d: the first bit on     *)
(* the wire of each field is its most significant bit.  Stated of every     *)
(* symbol emitted so far in the transaction under way or just done.         *)
(***************************************************************************)
C13_MsbFirst ==
    \A k \in 1..Len(wire) :
        /\ k = 1 => wire[k] = 1
        /\ (k >= 2 /\ k <= 8) => wire[k] = BitOf(reg, 6 - (k - 2))
        /\ k = 9 => wire[k] = IF swioOperation = OperationWrite THEN 1 ELSE 0
        /\ (swioOperation = OperationWrite /\ k >= 10 /\ k <= 41) =>
               wire[k] = BitOf(dataWrite, 31 - (k - 10))

C13_Witness ==
    /\ swioDone
    /\ swioOperation = OperationWrite
    /\ reg = 53
    /\ dataWrite = 2129504853
    /\ SubSeq(wire, 1, 9) = <<1, 0, 1, 1, 0, 1, 0, 1, 1>>
    /\ SubSeq(wire, 10, 17) = <<0, 1, 1, 1, 1, 1, 1, 0>>
    /\ SubSeq(wire, 34, 41) = <<0, 1, 0, 1, 0, 1, 0, 1>>

(***************************************************************************)
(* C14. In a read transaction exactly 32 bit-read cycles are performed      *)
(* after the direction bit, and on the cycle done is asserted dataRead      *)
(* equals the 32 decoded bits with the first decoded bit in bit 31 and the  *)
(* last in bit 0, with no residue of the address or of earlier              *)
(* transactions.                                                            *)
(***************************************************************************)
C14_ReadAssembled ==
    /\ (pending = 1 /\ swioOperation = OperationRead) =>
          /\ Len(decoded) <= 32
          /\ Len(decoded) > 0 => Len(wire) >= 1 + 7 + 1
    /\ (swioDone /\ swioOperation = OperationRead) =>
          /\ Len(decoded) = 32
          /\ \A k \in 0..31 : dataRead[k + 1] = decoded[32 - k]

C14_Witness ==
    /\ swioDone
    /\ swioOperation = OperationRead
    /\ transactions = 2
    /\ Len(decoded) = 32
    /\ SubSeq(decoded, 1, 8) = <<0, 1, 1, 1, 1, 1, 1, 0>>
    /\ dataRead[31] = 1
    /\ dataRead[1] = 1

(***************************************************************************)
(* C15. done is asserted for exactly one clock cycle per accepted           *)
(* startRead/startWrite pulse: it is never asserted without a preceding     *)
(* start, never for two consecutive cycles, and never twice for the same    *)
(* start.  pending counts the accepted starts whose done has not come: it   *)
(* is 0 or 1, a cycle with done follows a cycle without done in which one   *)
(* start was pending, and it leaves none pending.                           *)
(***************************************************************************)
C15_DoneInv ==
    /\ pending \in {0, 1}
    /\ swioDone => pending = 0 /\ transactions > 0

C15_DonePulse ==
    /\ []C15_DoneInv
    /\ [][swioDone' => (~swioDone /\ pending = 1 /\ pending' = 0)]_vars

C15_Witness ==
    /\ swioDone
    /\ transactions = 2
    /\ pending = 0

(***************************************************************************)
(* C17. After reset the emitter first drives the line high for 5 periods    *)
(* of the millisecond delay counter, then drives it low for 20 periods,     *)
(* and only then releases the line (output-enable 0) and asserts ready;     *)
(* ready is 0 throughout both phases and the two phases happen exactly      *)
(* once and in this order.  phases lists the phases completed, each with    *)
(* the level driven and the delay periods it lasted.                        *)
(***************************************************************************)
C17_ResetHandshake ==
    /\ bitFsm = "RESET" => (~swioReady /\ phases = <<>>)
    /\ bitFsm = "WAIT_FIRST_DELAY" =>
          (~swioReady /\ o = 1 /\ oe = 1 /\ phases = <<>>)
    /\ bitFsm = "WAIT_SECOND_DELAY" =>
          (~swioReady /\ o = 0 /\ oe = 1 /\ phases = <<<<1, 1, 5>>>>)
    /\ swioReady <=> bitFsm \notin {"RESET", "WAIT_FIRST_DELAY", "WAIT_SECOND_DELAY"}
    /\ swioReady => (o = 0 /\ phases = <<<<1, 1, 5>>, <<0, 1, 20>>>>)
    /\ (swioReady /\ bitFsm = "IDLE") => oe = 0

C17_Witness ==
    /\ swioReady
    /\ bitFsm = "IDLE"
    /\ oe = 0
    /\ phases = <<<<1, 1, 5>>, <<0, 1, 20>>>>
    /\ transactions = 0

(***************************************************************************)
(* C18. Every emitted '1' bit and the start marker drive the line low for   *)
(* a space of 2 bit-timing ticks followed by a released mark of 4 ticks,    *)
(* and every emitted '0' bit drives it low for 8 ticks followed by a        *)
(* released mark of 4 ticks, before finish is signalled; this holds for     *)
(* every system clock frequency the divider is parameterised with.  A tick  *)
(* is a count of the 8 MHz divider; the ticks of a bit are counted apart    *)
(* for the cycles with the line driven and the cycles with it released.     *)
(***************************************************************************)
C18_SpaceThenMark ==
    /\ bitFsm = "WAIT_SPACE" => (oe = 1 /\ o = 0 /\ markTicks = 0 /\ markCycles = 0)
    /\ bitFsm = "WAIT_MARK" =>
          (oe = 0 /\ spaceTicks = IF wire[Len(wire)] = 1 THEN 2 ELSE 8)
    /\ (finish /\ wire[Len(wire)] = 1) => (spaceTicks = 2 /\ markTicks = 4)
    /\ (finish /\ wire[Len(wire)] = 0) => (spaceTicks = 8 /\ markTicks = 4)

C18_Witness ==
    /\ finish
    /\ baseFrequency = 16
    /\ Len(wire) > 2
    /\ wire[Len(wire)] = 0
    /\ wire[Len(wire) - 1] = 1
    /\ spaceTicks = 8
    /\ markTicks = 4

C20_StopReleased ==
    /\ bitFsm \in {"STOP", "WAIT_STOP"} => oe = 0
    /\ (finish /\ Len(wire) > 0 /\ wire[Len(wire)] = StopMarker) =>
           /\ markTicks = StopPeriod
           /\ spaceCycles = 0
           /\ spaceTicks = 0

C20_Witness ==
    /\ finish
    /\ swioOperation = OperationWrite
    /\ Len(wire) = 1 + RegBits + 1 + DataBits + 1
    /\ wire[Len(wire)] = StopMarker
    /\ markTicks = StopPeriod
    /\ oe = 0

(***************************************************************************)
(* C11. A write(r, d) followed by a read(r), against a target that stores   *)
(* the value written to r and answers each bit-read by holding the line low *)
(* for a '1'-length or a '0'-length pulse, completes and delivers           *)
(* dataRead = d: when done is signalled for a read of the register the      *)
(* target holds, every bit of dataRead is that bit of the dataWrite of the  *)
(* write before it.                                                         *)
(***************************************************************************)
C11_WriteThenRead ==
    (/\ swioDone
     /\ swioOperation = OperationRead
     /\ transactions = 2
     /\ WireAddress = targetReg) =>
        /\ Len(decoded) = DataBits
        /\ \A k \in 1..DataBits : dataRead[k] = BitOf(dataWrite, k - 1)

C11_Witness ==
    /\ swioDone
    /\ swioOperation = OperationRead
    /\ transactions = 2
    /\ WireAddress = targetReg
    /\ reg = 122
    /\ dataWrite # 0
    /\ \A k \in 1..DataBits : dataRead[k] = BitOf(dataWrite, k - 1)

(***************************************************************************)
(* C16. At most one transaction is in flight.  A startRead or startWrite    *)
(* pulse arriving while the transactor is not IDLE starts no second         *)
(* transaction and leaves the operation of the current one as it is: in a   *)
(* cycle the transactor begins outside IDLE, its operation and the number   *)
(* of starts it has accepted stay the same, and never more than one         *)
(* accepted start awaits its done.  With the dispatcher connected to the    *)
(* transactor, every start pulse of the dispatcher falls in a cycle the     *)
(* transactor begins in IDLE with no start awaiting its done.               *)
(***************************************************************************)
C16_OneInFlight ==
    [][/\ swioFsm # "IDLE" =>
            /\ swioOperation' = swioOperation
            /\ transactions' = transactions
            /\ pending' <= pending
       /\ pending' <= 1
       /\ (Linked /\ (startRead' \/ startWrite')) =>
            /\ swioFsm = "IDLE"
            /\ pending = 0
            /\ ~inflight]_vars

C16_Witness ==
    /\ wiring = "pulses"
    /\ startRead
    /\ swioFsm = "WAIT_WRITE_VALUE"
    /\ swioOperation = OperationWrite
    /\ bitCounter = 5
    /\ ~WriterFinish
    /\ pending = 1
    /\ transactions = 1

(***************************************************************************)
(* C21. When a bit-read finishes, the decoder's bit is 1 if the low         *)
(* duration counted for that bit is at most 4 ticks and 0 if it is more,    *)
(* and finish is signalled only after a mark of 4 ticks has elapsed since   *)
(* the capture ended.                                                       *)
(***************************************************************************)
C21_Classified ==
    ReaderFinish =>
        /\ readBit = IF lowTicks <= 4 THEN 1 ELSE 0
        /\ readMarks = 4

C21_Witness ==
    /\ wiring = "line"
    /\ ReaderFinish
    /\ lowTicks = 4
    /\ readBit = 1
    /\ readMarks = 4
    /\ ~error

(***************************************************************************)
(* C22. If in a bit-read the line is still low when the counted low         *)
(* duration has reached 96 ticks, the decoder sets error for that bit and   *)
(* leaves CAPTURE; the bit is still classified (as 0), the mark period is   *)
(* waited and finish asserted; error is cleared when the next bit-read is   *)
(* started.                                                                 *)
(***************************************************************************)
C22_StuckLine ==
    [][/\ (readFsm = "CAPTURE" /\ lowTicks = 96 /\ lineIn' = 0) =>
            (error' /\ readFsm' = "FINISH")
       /\ (readFsm = "CAPTURE" /\ readFsm' = "CAPTURE") => lowTicks' <= 96
       /\ (error' /\ ReaderFinish') => (readBit' = 0 /\ readMarks' = 4)
       /\ (error' /\ readFsm' # "IDLE") =>
            (lowTicks' >= 96 /\ readFsm' \in {"FINISH", "WAIT_MARK"})
       /\ (readFsm = "IDLE" /\ readFsm' # "IDLE") => ~error']_vars

C22_Witness ==
    /\ wiring = "line"
    /\ ReaderFinish
    /\ error
    /\ lowTicks >= 96
    /\ readBit = 0

(***************************************************************************)
(* C23. Every read transaction that has started eventually asserts done,    *)
(* under clock fairness alone and for every behaviour of the line: the      *)
(* target answering, the line stuck low, or the line never pulled low.      *)
(***************************************************************************)
C23_ReadCompletes ==
    (swioFsm = "START" /\ swioOperation = OperationRead) ~> swioDone

(***************************************************************************)
(* C24. Every write transaction that has started while the emitter is       *)
(* ready eventually asserts done and returns the transactor to IDLE, under  *)
(* clock fairness alone and whatever the line input reads.                  *)
(***************************************************************************)
C24_WriteCompletes ==
    (swioFsm = "START" /\ swioOperation = OperationWrite /\ swioReady)
        ~> (swioDone /\ swioFsm = "IDLE")

C24_Witness ==
    /\ targetKind = "stuck"
    /\ swioOperation = OperationWrite
    /\ swioDone
    /\ swioFsm = "IDLE"
    /\ Len(wire) = 1 + RegBits + 1 + DataBits + 1

C26_NoPulseLost ==
    Linked =>
        /\ (\/ swioFsm \in {"START", "SEND_REGISTER", "WRITE_VALUE"}
            \/ swioFsm = "READ_VALUE" /\ bitCounter = DataBits)
               => (bitFsm = "IDLE" /\ swioReady)
        /\ (swioFsm = "READ_VALUE" /\ bitCounter # DataBits) => readFsm = "IDLE"
        /\ (WriterFinish /\ bitFsm = "WAIT_MARK")
               => swioFsm \in {"WAIT_START", "WAIT_SEND_REGISTER",
                               "WAIT_READ_WRITE_BIT", "WAIT_WRITE_VALUE"}
        /\ (WriterFinish /\ bitFsm = "WAIT_STOP") => swioFsm = "STOP"
        /\ ReaderFinish => swioFsm = "WAIT_READ_VALUE"
        /\ (swioFsm = "STOP" /\ StopDone) => fsm \in {"WAIT_READ", "WAIT_WRITE"}

C26_Witness ==
    /\ Linked
    /\ transactions = MaxTransactions
    /\ swioFsm = "STOP"
    /\ StopDone
    /\ fsm = "WAIT_READ"
    /\ decoded # << >>

(***************************************************************************)
(* C27. For a read command exactly four data bytes are sent before the     *)
(* dispatcher goes back to waiting for a command, whatever sendReady does, *)
(* sendReady true on every cycle included: the byte index never goes       *)
(* beyond 4, and with the index at 4 no further byte is queued and the     *)
(* dispatcher leaves for WAIT_COMMAND.                                     *)
(***************************************************************************)
C27_FourBytesSent ==
    [][fsm = "SEND_READ_VALUE"
          => /\ valueByte' <= WordBytes
             /\ valueByte = WordBytes => (~sendStart' /\ fsm' = "WAIT_COMMAND")]_vars

(***************************************************************************)
(* C28. For a write command exactly four data bytes are consumed before    *)
(* startWrite is pulsed, whatever recvReady does: with four bytes stored,  *)
(* a further byte the host presents is not consumed (no recvDone), the     *)
(* write is started, and dataWrite keeps the four bytes.                   *)
(***************************************************************************)
C28_FourBytesConsumed ==
    [][(fsm = "RECV_WRITE_VALUE" /\ valueByte = WordBytes)
          => (~recvDone' /\ startWrite' /\ fsm' = "WAIT_WRITE"
              /\ dataWrite' = dataWrite)]_vars

(***************************************************************************)
(* C29. The emitter asserts finish for exactly one clock cycle per         *)
(* accepted bit, start-marker or stop-marker request, on the cycle the     *)
(* mark period (4 T) or the stop idle period (20 T) has run out, and never *)
(* during the reset handshake or while idle: a cycle with finish is a      *)
(* cycle of WAIT_MARK or WAIT_STOP with the whole period counted, the next *)
(* cycle has none, and the finish cycles counted so far are the requests   *)
(* put on the wire, less the one still being timed.                        *)
(***************************************************************************)
C29_FinishOnce ==
    [][/\ finish' => /\ bitFsm \in {"WAIT_MARK", "WAIT_STOP"}
                     /\ bitFsm' = "IDLE"
                     /\ ~finish
                     /\ markTicks = IF bitFsm = "WAIT_MARK" THEN MarkPeriod
                                    ELSE StopPeriod
       /\ bitFsm' \in {"WAIT_SPACE", "WAIT_MARK", "WAIT_STOP"}
             => Len(wire') = finishes' + 1
       /\ bitFsm' \in {"IDLE", "SETUP", "STOP"} => Len(wire') = finishes'
       /\ bitFsm' \in {"RESET", "WAIT_FIRST_DELAY", "WAIT_SECOND_DELAY"}
             => finishes' = 0]_vars

C29_Witness ==
    /\ finish
    /\ finishes = 3 + RegBits + DataBits
    /\ Len(wire) = finishes
    /\ wire[Len(wire)] = StopMarker
    /\ markTicks = StopPeriod
    /\ transactions = MaxTransactions

(***************************************************************************)
(* C30. The tick divider is exact: the accumulator stays within            *)
(* 0..F-1, F the system clock in MHz, and while the space of a bit is      *)
(* being counted, n cycles after it was loaded with the accumulator at a0, *)
(* the remaining-duration counter has been decremented floor((a0 + 8n)/F)  *)
(* times.                                                                  *)
(***************************************************************************)
C30_DividerExact ==
    /\ bitTimer \in 0..(baseFrequency - 1)
    /\ (bitFsm = "WAIT_SPACE" /\ bitPeriod # 0)
          => spaceTicks = (timer0 + bitFrequency * spaceCycles) \div baseFrequency

(***************************************************************************)
(* C31. Once ready has been asserted it is never deasserted, and from then *)
(* on the emitter's output value is 0: the line is only released or driven *)
(* low.  The output value is 1, and the line driven high, only during the  *)
(* first phase of the reset handshake.                                     *)
(***************************************************************************)
C31_ReadyStays ==
    [][/\ swioReady => swioReady'
       /\ swioReady' => o' = 0
       /\ o' = 1 => (bitFsm' = "WAIT_FIRST_DELAY" /\ oe' = 1 /\ ~swioReady')]_vars

C31_Witness ==
    /\ swioReady
    /\ oe = 1
    /\ o = 0
    /\ bitFsm = "WAIT_SPACE"
    /\ transactions = MaxTransactions
    /\ phases = <<<<1, 1, FirstDelay>>, <<0, 1, SecondDelay>>>>

(***************************************************************************)
(* C32. With dispatcher and transactor connected, the values the           *)
(* transactor samples are the ones the host sent: in START, the cycle      *)
(* after the start pulse, reg is the low 7 bits of the register byte       *)
(* received and is what the transactor loads; reg and dataWrite do not     *)
(* change in any cycle of a transaction up to and including its done       *)
(* pulse; and what a write loads when the direction bit has gone is        *)
(* dataWrite, the four data bytes received, least significant first.       *)
(***************************************************************************)
C32_SampledAsSent ==
    [][Linked =>
         /\ swioFsm = "START"
               => /\ data' = Mirror(reg, RegBits)
                  /\ rx # TooMany => (rx # << >> /\ reg = RegisterOf(rx[1]))
         /\ swioFsm # "IDLE" => (reg' = reg /\ dataWrite' = dataWrite)
         /\ (swioFsm = "WAIT_READ_WRITE_BIT" /\ WriterFinish
             /\ swioOperation = OperationWrite)
               => /\ data' = Mirror(dataWrite, DataBits)
                  /\ rx # TooMany
                        => /\ Len(rx) = 1 + WordBytes
                           /\ dataWrite = rx[2] + 256 * rx[3] + 65536 * rx[4]
                                          + 16777216 * rx[5]]_vars

C32_Witness ==
    /\ Linked
    /\ swioFsm = "STOP"
    /\ StopDone
    /\ swioOperation = OperationWrite
    /\ transactions = MaxTransactions
    /\ rx = <<250, 85, 85, 85, 85>>
    /\ reg = 122
    /\ dataWrite = 1431655765
    /\ SubSeq(wire, 2, 1 + RegBits) = <<1, 1, 1, 1, 0, 1, 0>>

(***************************************************************************)
(* C33. With dispatcher and transactor connected, until the emitter has    *)
(* completed its reset handshake and asserted ready the transactor stays   *)
(* in IDLE, no bit or marker has been requested from the emitter, and the  *)
(* dispatcher stays in INIT: it pulses neither start nor recvDone, so no   *)
(* host byte is consumed.                                                  *)
(***************************************************************************)
C33_NothingBeforeReady ==
    (Linked /\ ~swioReady) =>
        /\ swioFsm = "IDLE"
        /\ bitFsm \in {"RESET", "WAIT_FIRST_DELAY", "WAIT_SECOND_DELAY"}
        /\ readFsm = "IDLE"
        /\ wire = << >>
        /\ transactions = 0
        /\ fsm = "INIT"
        /\ ~recvDone /\ ~startRead /\ ~startWrite /\ ~sendStart
        /\ cmd = NoByte
        /\ rx = << >>

C33_Witness ==
    /\ Linked
    /\ ~swioReady
    /\ bitFsm = "WAIT_SECOND_DELAY"
    /\ delay = 0
    /\ phases = <<<<1, 1, FirstDelay>>>>
    /\ fsm = "INIT"
    /\ swioFsm = "IDLE"

(***************************************************************************)
(* C34. The decoder's result does not depend on the divider phase left     *)
(* over from earlier activity: at 12 MHz a low pulse of 3 clock cycles     *)
(* (2 ticks, a nominal '1') is decoded as 1 and a low pulse of 12 clock    *)
(* cycles (8 ticks, a nominal '0') is decoded as 0, both without error,    *)
(* whatever the tick accumulator held when the bit-read was started.       *)
(***************************************************************************)
C34_PhaseFree ==
    (baseFrequency = 12 /\ ReaderFinish) =>
        /\ lowCycles = 3 => (readBit = 1 /\ ~error)
        /\ lowCycles = 12 => (readBit = 0 /\ ~error /\ lowTicks = 8)

C34_Witness ==
    /\ baseFrequency = 12
    /\ ReaderFinish
    /\ lowCycles = 12
    /\ readTimer0 = 28
    /\ readBit = 0
    /\ ~error

============================================================================
